---- MODULE Spec2Model ----
(***************************************************************************)
(* A model of src/src/sigar.c: the growable result lists (create, grow,    *)
(* destroy and the grow-before-write insertion of sigar_who_list_get), the *)
(* hardware-address formatter, and the session operations                  *)
(* sigar_net_interface_list_get, sigar_net_interface_config_get and        *)
(* sigar_fqdn_get.                                                         *)
(*                                                                         *)
(* Four specifications share the variables:                                *)
(*   SpecList  the list family and sigar_who_list_get;                     *)
(*   SpecHw    sigar_hwaddr_format applied to 6-byte inputs;               *)
(*   Spec      one session: open, interface enumeration, interface         *)
(*             configuration, FQDN resolution, close;                      *)
(*   SpecConc  Spec with a thread of a second session calling the          *)
(*             resolver beside it.                                         *)
(* Strings are sequences of one-character strings, so that strchr,         *)
(* strncmp, sprintf and the digit arithmetic of sigar_inet_ntoa are        *)
(* computed character by character.                                        *)
(***************************************************************************)
EXTENDS Integers, Sequences, FiniteSets, TLC

VARIABLES
    list,       \* the sigar_*_list_t under test: number, size, data, storage
    inserted,   \* history: the elements written since the last create
    destroys,   \* history: destroy calls since the last create
    who,        \* sigar_who_list_get: position, FILE *fp, records read, status
    hw,         \* sigar_hwaddr_format: the input bytes and the output buffer
    build,      \* the platform the file is compiled for (selects the #if branches)
    ktab,       \* the kernel's interface records, in the order SIOCGIFCONF reports them
    sigar,      \* the session: open or closed, ifconf_buf, ifconf_len, buffer contents
    pc,         \* where the session's thread is: idle, inside a loop, or aborted
    op,         \* the API operation in progress or last returned
    status,     \* the value the last operation returned
    fds,        \* descriptors opened by the current operation and not yet closed
    loc,        \* sigar_net_interface_list_get's locals: lastlen, ifc.ifc_len, caller
    queries,    \* history: the SIOCGIFCONF queries of the current enumeration
    iflist,     \* the caller's sigar_net_interface_list_t
    ifconfig,   \* the caller's sigar_net_interface_config_t
    ioctls,     \* history: the requests the last config_get issued
    refused,    \* history: the requests issued by the last config_get that the kernel refused
    peer,       \* a thread of another session inside sigar_fqdn_get: out of, or inside, a resolver call
    fq,         \* sigar_fqdn_get: the name buffer, namelen, loop index, stages
    hostent     \* the resolver's static struct hostent

listVars == <<list, inserted, destroys, who>>
hwVars == <<hw>>
netVars == <<build, ktab, sigar, pc, op, status, fds, loc, queries,
             iflist, ifconfig, ioctls, refused, peer, fq, hostent>>
vars == <<list, inserted, destroys, who, hw, build, ktab, sigar, pc, op, status,
          fds, loc, queries, iflist, ifconfig, ioctls, refused, peer, fq, hostent>>

(***************************************************************************)
(* Bounds.  The chunk sizes SIGAR_*_MAX are set in sigar_private.h, which  *)
(* is not part of src/; the model uses small stand-ins so that several     *)
(* growth steps happen within MaxInserts insertions.                       *)
(***************************************************************************)
SIGAR_PROC_LIST_MAX == 2
SIGAR_PROC_ARGS_MAX == 2
SIGAR_FS_MAX == 1
SIGAR_CPU_INFO_MAX == 1
SIGAR_NET_ROUTE_LIST_MAX == 2
SIGAR_NET_IFLIST_MAX == 1
SIGAR_NET_CONNLIST_MAX == 2
SIGAR_WHO_LIST_MAX == 2
MaxInserts == 5
MaxReads == 5
MaxDestroys == 2

(***************************************************************************)
(* The list family                                                         *)
(***************************************************************************)
Kinds ==
    {"proc_list", "proc_args", "file_system_list", "cpu_info_list", "cpu_list",
     "net_route_list", "net_interface_list", "net_connection_list", "who_list"}

ChunkSize(k) ==
    CASE k = "proc_list" -> SIGAR_PROC_LIST_MAX
      [] k = "proc_args" -> SIGAR_PROC_ARGS_MAX
      [] k = "file_system_list" -> SIGAR_FS_MAX
      [] k = "cpu_info_list" -> SIGAR_CPU_INFO_MAX
      [] k = "cpu_list" -> SIGAR_CPU_INFO_MAX
      [] k = "net_route_list" -> SIGAR_NET_ROUTE_LIST_MAX
      [] k = "net_interface_list" -> SIGAR_NET_IFLIST_MAX
      [] k = "net_connection_list" -> SIGAR_NET_CONNLIST_MAX
      [] k = "who_list" -> SIGAR_WHO_LIST_MAX

\* The kinds whose destroy frees every element before the storage.
OwnsElements(k) == k \in {"proc_args", "net_interface_list"}

\* A list struct no create has initialised yet.
RawList ==
    [kind |-> "who_list", number |-> 0, size |-> 0, data |-> <<>>,
     storage |-> "raw", dataFrees |-> 0, elemFrees |-> <<>>]

\* number = 0; size = MAX; data = malloc(sizeof(*data) * size)
list_create(k) ==
    [kind |-> k, number |-> 0, size |-> ChunkSize(k), data |-> <<>>,
     storage |-> "live", dataFrees |-> 0, elemFrees |-> <<>>]

list_grow_double(l) == [l EXCEPT !.size = @ + @]
\* data = realloc(data, sizeof(*data) * (size + MAX)); size += MAX
list_grow(l) == [l EXCEPT !.size = @ + ChunkSize(l.kind)]

\* SIGAR_*_LIST_GROW(list): grow when the next write would not fit.
LIST_GROW(l) == IF l.number >= l.size THEN list_grow(l) ELSE l

list_insert_front(l, e) ==
    LET g == LIST_GROW(l)
    IN  [g EXCEPT !.data = <<e>> \o @, !.number = @ + 1,
                  !.elemFrees = Append(@, 0)]
\* SIGAR_*_LIST_GROW(list); list->data[list->number++] = e
list_insert(l, e) ==
    LET g == LIST_GROW(l)
    IN  [g EXCEPT !.data = [i \in 1..(g.number + 1) |->
                              IF i = g.number + 1 THEN e ELSE @[i]],
                  !.number = @ + 1,
                  !.elemFrees = Append(@, 0)]

\* free(data[i]) for i < number (name-owning kinds), free(data), zero the counts
FreeStorage(l) ==
    [l EXCEPT !.elemFrees = [i \in 1..Len(@) |->
                               IF OwnsElements(l.kind) /\ i <= l.number
                               THEN @[i] + 1 ELSE @[i]],
              !.dataFrees = @ + 1,
              !.number = 0,
              !.size = 0,
              !.data = <<>>,
              !.storage = "freed"]

list_destroy_unguarded(l) == FreeStorage(l)
\* if (list->size) { ... free ...; number = size = 0; }
list_destroy(l) == IF l.size # 0 THEN FreeStorage(l) ELSE l

Elems == {"a", "b"}

ListCreate ==
    /\ who.pc = "idle"
    /\ list.storage # "live"
    /\ \E k \in Kinds : list' = list_create(k)
    /\ inserted' = <<>>
    /\ destroys' = 0
    /\ UNCHANGED <<who, hwVars, netVars>>

ListInsert ==
    /\ who.pc = "idle"
    /\ list.storage = "live"
    /\ Len(inserted) < MaxInserts
    /\ \E e \in Elems :
          /\ list' = list_insert(list, e)
          /\ inserted' = Append(inserted, e)
    /\ UNCHANGED <<destroys, who, hwVars, netVars>>

ListDestroy ==
    /\ who.pc = "idle"
    /\ list.storage # "raw"
    /\ destroys < MaxDestroys
    /\ list' = list_destroy(list)
    /\ destroys' = destroys + 1
    /\ UNCHANGED <<inserted, who, hwVars, netVars>>

(***************************************************************************)
(* sigar_who_list_get                                                      *)
(***************************************************************************)
IdleWho == [pc |-> "idle", fp |-> "none", nread |-> 0, status |-> "none",
            user_process |-> TRUE]

\* One utmp record: the user name (empty or not) and the record type.
UtmpRecords == [user : {"", "u"}, type : {"USER_PROCESS", "DEAD_PROCESS"}]

\* if (!(fp = fopen(SIGAR_UTMP_FILE, "r"))) return errno;
\* sigar_who_list_create(wholist);
WhoListGetOpen ==
    /\ who.pc = "idle"
    /\ list.storage # "live"
    /\ \E ok \in BOOLEAN, up \in BOOLEAN :
          IF ok
          THEN /\ who' = [pc |-> "reading", fp |-> "open", nread |-> 0,
                          status |-> "none", user_process |-> up]
               /\ list' = list_create("who_list")
               /\ inserted' = <<>>
               /\ destroys' = 0
          ELSE /\ who' = [IdleWho EXCEPT !.status = "errno"]
               /\ UNCHANGED <<list, inserted, destroys>>
    /\ UNCHANGED <<hwVars, netVars>>

\* The records the loop skips: an empty name, or (where USER_PROCESS is
\* defined) a type other than USER_PROCESS.
WhoSkips(ut, up) == ut.user = "" \/ (up /\ ut.type # "USER_PROCESS")

\* while (fread(&ut, sizeof(ut), 1, fp) == 1) { ... }
WhoListGetRead ==
    /\ who.pc = "reading"
    /\ who.nread < MaxReads
    /\ \E ut \in UtmpRecords :
          /\ who' = [who EXCEPT !.nread = @ + 1]
          /\ IF WhoSkips(ut, who.user_process)
             THEN UNCHANGED <<list, inserted>>
             ELSE /\ list' = list_insert(list, ut.user)
                  /\ inserted' = Append(inserted, ut.user)
    /\ UNCHANGED <<destroys, hwVars, netVars>>

\* fread returns less than one record: fclose(fp); return SIGAR_OK;
WhoListGetEof ==
    /\ who.pc = "reading"
    /\ who' = [who EXCEPT !.pc = "idle", !.fp = "closed", !.status = "SIGAR_OK"]
    /\ UNCHANGED <<list, inserted, destroys, hwVars, netVars>>

InitList ==
    /\ list = RawList
    /\ inserted = <<>>
    /\ destroys = 0
    /\ who = IdleWho

NextList ==
    \/ ListCreate
    \/ ListInsert
    \/ ListDestroy
    \/ WhoListGetOpen
    \/ WhoListGetRead
    \/ WhoListGetEof

(***************************************************************************)
(* sigar_hwaddr_format                                                     *)
(***************************************************************************)
UpperHexDigits ==
    <<"0", "1", "2", "3", "4", "5", "6", "7",
      "8", "9", "A", "B", "C", "D", "E", "F">>
LowerHexDigits ==
    <<"0", "1", "2", "3", "4", "5", "6", "7",
      "8", "9", "a", "b", "c", "d", "e", "f">>

RECURSIVE HexString(_, _)
\* The hexadecimal digits of v, most significant first, from table t.
HexString(v, t) ==
    IF v < 16 THEN <<t[v + 1]>>
    ELSE HexString(v \div 16, t) \o <<t[(v % 16) + 1]>>

\* printf's %02X: uppercase hexadecimal, zero-padded to at least 2 digits.
Fmt02X(v) ==
    LET s == HexString(v, UpperHexDigits)
    IN  IF Len(s) < 2 THEN <<"0">> \o s ELSE s

\* x & 0377
Mask8(x) == x % 256

hwaddr_format_lower(ptr) ==
    LET b(i) == HexString(Mask8(ptr[i]), LowerHexDigits)
        p(i) == IF Len(b(i)) < 2 THEN <<"0">> \o b(i) ELSE b(i)
    IN  p(1) \o <<":">> \o p(2) \o <<":">> \o p(3) \o <<":">>
        \o p(4) \o <<":">> \o p(5) \o <<":">> \o p(6)
\* sprintf(buff, "%02X:%02X:%02X:%02X:%02X:%02X", ptr[0] & 0377, ...)
sigar_hwaddr_format(ptr) ==
    Fmt02X(Mask8(ptr[1])) \o <<":">> \o Fmt02X(Mask8(ptr[2])) \o <<":">>
    \o Fmt02X(Mask8(ptr[3])) \o <<":">> \o Fmt02X(Mask8(ptr[4])) \o <<":">>
    \o Fmt02X(Mask8(ptr[5])) \o <<":">> \o Fmt02X(Mask8(ptr[6]))

\* The byte values the inputs are drawn from.
HwBytes == {0, 1, 10, 16, 171, 255}

IdleHw == [ptr |-> <<0, 0, 0, 0, 0, 0>>, buff |-> <<>>]

InitHw == hw \in [ptr : [1..6 -> HwBytes], buff : {<<>>}]

HwaddrFormat ==
    /\ hw.buff = <<>>
    /\ hw' = [hw EXCEPT !.buff = sigar_hwaddr_format(hw.ptr)]
    /\ UNCHANGED <<listVars, netVars>>

(***************************************************************************)
(* Strings and the string helpers of sigar_fqdn_get                        *)
(***************************************************************************)
S_host == <<"h", "o", "s", "t">>
S_srv == <<"s", "r", "v">>
S_example_com == <<"e", "x", "a", "m", "p", "l", "e", ".", "c", "o", "m">>
S_none == <<"(", "n", "o", "n", "e", ")">>
S_host_example_com == S_host \o <<".">> \o S_example_com
S_host_internal ==
    S_host \o <<".", "i", "n", "t", "e", "r", "n", "a", "l", ".">> \o S_example_com
S_otherhost == <<"o", "t", "h", "e", "r">> \o S_host \o <<".">> \o S_example_com
S_srv_example_com == S_srv \o <<".">> \o S_example_com
S_hostalias == S_host \o <<"a", "l", "i", "a", "s">>

RECURSIVE strchr(_, _)
\* strchr(s, c) != NULL: scan s from its first character for c.
strchr(s, c) ==
    IF s = <<>> THEN FALSE
    ELSE IF Head(s) = c THEN TRUE
    ELSE strchr(Tail(s), c)

RECURSIVE strncmp_eq(_, _, _)
\* strncmp(a, b, n) == 0: compare at most n characters, stopping at the NUL
\* that ends either string.
strncmp_eq(a, b, n) ==
    IF n = 0 THEN TRUE
    ELSE IF a = <<>> \/ b = <<>> THEN a = <<>> /\ b = <<>>
    ELSE IF Head(a) # Head(b) THEN FALSE
    ELSE strncmp_eq(Tail(a), Tail(b), n - 1)

\* #define IS_FQDN(name) strchr(name, '.')
IS_FQDN(name) == strchr(name, ".")

\* The match with strEQ in the place of strnEQ.
H_ALIAS_MATCH_whole(alias, name) == IS_FQDN(alias) /\ alias = name

H_ALIAS_MATCH_any_dotted(alias, name) == IS_FQDN(alias)
\* #define H_ALIAS_MATCH(alias, name)
\*     (IS_FQDN(alias) && strnEQ(alias, name, strlen(name)))
H_ALIAS_MATCH(alias, name) ==
    IS_FQDN(alias) /\ strncmp_eq(alias, name, Len(name))

\* SIGAR_STRNCPY(dest, src, len): strncpy(dest, src, len); dest[len-1] = 0
SIGAR_STRNCPY(src, len) ==
    IF len <= 0 THEN <<>>
    ELSE IF Len(src) <= len - 1 THEN src
    ELSE SubSeq(src, 1, len - 1)

(***************************************************************************)
(* The kernel: interface records and per-interface attributes              *)
(***************************************************************************)
Builds == {"linux", "aix", "osf", "arp"}

Rec(n, f) == [name |-> n, family |-> f]

\* The record tables SIOCGIFCONF answers from, one per behaviour.
KernelTables ==
    { <<>>,
      <<Rec("eth0", "AF_LINK")>>,
      <<Rec("lo", "AF_LINK"), Rec("eth0", "AF_INET")>>,
      <<Rec("eth0", "AF_INET"), Rec("eth0", "AF_LINK")>>,
      <<Rec("lo", "AF_INET"), Rec("eth1", "AF_LINK"), Rec("eth0", "AF_LINK")>> }

Zero4 == <<0, 0, 0, 0>>

\* What the kernel holds for an interface.  Addresses are the four bytes of
\* s_addr in memory order, which is network order on every byte order.
KernelIf(n) ==
    CASE n = "lo" ->
           [addr |-> <<127, 0, 0, 1>>, netmask |-> <<255, 0, 0, 0>>,
            flags |-> {"IFF_UP", "IFF_LOOPBACK"},
            dstaddr |-> <<127, 0, 0, 2>>, brdaddr |-> <<127, 255, 255, 255>>,
            hwaddr |-> <<0, 0, 0, 0, 0, 1>>, mtu |-> 16436, metric |-> 0]
      [] n = "eth0" ->
           [addr |-> <<10, 0, 0, 5>>, netmask |-> <<255, 255, 255, 0>>,
            flags |-> {"IFF_UP", "IFF_MULTICAST"},
            dstaddr |-> <<10, 0, 0, 5>>, brdaddr |-> <<10, 0, 0, 255>>,
            hwaddr |-> <<1, 171, 0, 255, 16, 10>>, mtu |-> 1500, metric |-> 0]
      [] OTHER ->
           [addr |-> <<192, 168, 1, 100>>, netmask |-> <<255, 255, 255, 0>>,
            flags |-> {"IFF_UP", "SIGAR_IFF_MULTICAST"},
            dstaddr |-> <<192, 168, 1, 1>>, brdaddr |-> <<192, 168, 1, 255>>,
            hwaddr |-> <<16, 255, 171, 0, 1, 10>>, mtu |-> 9000, metric |-> 5]

IfNames == {"lo", "eth0", "eth1"}

\* The per-interface requests sigar_net_interface_config_get can issue.
Requests ==
    {"SIOCGIFADDR", "SIOCGIFNETMASK", "SIOCGIFFLAGS", "SIOCGIFDSTADDR",
     "SIOCGIFBRDADDR", "SIOCGIFHWADDR", "SIOCGARP", "SIOCGIFMTU",
     "SIOCGIFMETRIC"}

\* SIGAR_ZERO(ifconfig)
ZeroIfconfig ==
    [name |-> "", address |-> Zero4, netmask |-> Zero4, broadcast |-> Zero4,
     destination |-> Zero4, hwaddr |-> <<>>, flags |-> {}, mtu |-> 0,
     metric |-> 0]

\* sigar_hwaddr_set_null(ifconfig): the null address 00:00:00:00:00:00
NullHwaddr == sigar_hwaddr_format(<<0, 0, 0, 0, 0, 0>>)

\* The __linux__ fix-up of the flags: SIGAR_IFF_MULTICAST is set exactly when
\* the kernel's IFF_MULTICAST is (the kernel's 0x800 bit is IFF_SLAVE there).
FlagsOf(bld, kflags) ==
    IF bld = "linux"
    THEN IF "IFF_MULTICAST" \in kflags
         THEN kflags \cup {"SIGAR_IFF_MULTICAST"}
         ELSE kflags \ {"SIGAR_IFF_MULTICAST"}
    ELSE kflags

\* hwaddr_aix_lookup: scan the session's enumeration buffer, over its whole
\* length ifconf_len, for an AF_LINK record of this name.  recs records of
\* the buffer hold the kernel's last answer; what lies behind them (and the
\* whole of a released buffer) is indeterminate, and stale stands for what
\* the scan finds there: "none" or the name of a matching record.
hwaddr_aix_lookup(name, sg, tab, stale) ==
    LET valid == IF sg.ifconf_buf = "valid" THEN sg.ifconf_recs ELSE 0
        hit == {i \in 1..valid :
                  i <= Len(tab) /\ tab[i].family = "AF_LINK" /\ tab[i].name = name}
    IN  IF hit # {} THEN sigar_hwaddr_format(KernelIf(name).hwaddr)
        ELSE IF stale # "none" THEN sigar_hwaddr_format(KernelIf(stale).hwaddr)
        ELSE NullHwaddr

\* hwaddr_arp_lookup: SIOCGARP by address; a failure zeroes the answer.
hwaddr_arp_lookup(name, fail) ==
    IF "SIOCGARP" \in fail
    THEN sigar_hwaddr_format(<<0, 0, 0, 0, 0, 0>>)
    ELSE sigar_hwaddr_format(KernelIf(name).hwaddr)

\* The branch of config_get for an interface that is not loopback.
NonLoopbackPart(bld, name, c, fail, sg, tab, stale) ==
    LET k == KernelIf(name)
        c1 == IF "SIOCGIFDSTADDR" \in fail THEN c
              ELSE [c EXCEPT !.destination = k.dstaddr]
        c2 == IF "SIOCGIFBRDADDR" \in fail THEN c1
              ELSE [c1 EXCEPT !.broadcast = k.brdaddr]
        hwreq == CASE bld = "linux" -> {"SIOCGIFHWADDR"}
                   [] bld = "arp" -> {"SIOCGARP"}
                   [] OTHER -> {}
        c3 == CASE bld = "linux" ->
                     IF "SIOCGIFHWADDR" \in fail THEN c2
                     ELSE [c2 EXCEPT !.hwaddr = sigar_hwaddr_format(k.hwaddr)]
                [] bld = "arp" ->
                     [c2 EXCEPT !.hwaddr = hwaddr_arp_lookup(name, fail)]
                [] OTHER ->
                     [c2 EXCEPT !.hwaddr = hwaddr_aix_lookup(name, sg, tab, stale)]
    IN  [cfg |-> c3,
         reqs |-> {"SIOCGIFDSTADDR", "SIOCGIFBRDADDR"} \cup hwreq]

LoopbackPart(c) ==
    [cfg |-> [c EXCEPT !.destination = c.address, !.broadcast = Zero4,
                       !.hwaddr = NullHwaddr],
     reqs |-> {}]

\* MTU (linux only) and metric, then close(sock).
TailPart(bld, name, c, fail) ==
    LET k == KernelIf(name)
        c1 == IF bld = "linux" /\ "SIOCGIFMTU" \notin fail
              THEN [c EXCEPT !.mtu = k.mtu] ELSE c
        c2 == IF "SIOCGIFMETRIC" \in fail THEN c1
              ELSE [c1 EXCEPT !.metric = IF k.metric # 0 THEN k.metric ELSE 1]
    IN  [cfg |-> c2,
         reqs |-> (IF bld = "linux" THEN {"SIOCGIFMTU"} ELSE {})
                  \cup {"SIOCGIFMETRIC"}]

ConfigBranch_always_lookup(bld, name, c, fail, sg, tab, stale) ==
    NonLoopbackPart(bld, name, c, fail, sg, tab, stale)
\* if (ifconfig->flags & IFF_LOOPBACK) { ... } else { ... }
ConfigBranch(bld, name, c, fail, sg, tab, stale) ==
    IF "IFF_LOOPBACK" \in c.flags
    THEN LoopbackPart(c)
    ELSE NonLoopbackPart(bld, name, c, fail, sg, tab, stale)

\* config_get with a flags lookup whose failure is passed over.
config_get_flags_best_effort(bld, name, sockok, fail, sg, tab, stale) ==
    LET k == KernelIf(name)
        z == [ZeroIfconfig EXCEPT !.name = name]
    IN  IF ~sockok
        THEN [status |-> "errno", cfg |-> ZeroIfconfig, reqs |-> {},
              opened |-> 0, closed |-> 0]
        ELSE IF "SIOCGIFADDR" \in fail
        THEN [status |-> "errno", cfg |-> z, reqs |-> {"SIOCGIFADDR"},
              opened |-> 1, closed |-> 1]
        ELSE
          LET c1 == [z EXCEPT !.address = k.addr]
              c2 == IF "SIOCGIFNETMASK" \in fail THEN c1
                    ELSE [c1 EXCEPT !.netmask = k.netmask]
              r2 == {"SIOCGIFADDR", "SIOCGIFNETMASK", "SIOCGIFFLAGS"}
              c3 == IF "SIOCGIFFLAGS" \in fail THEN c2
                    ELSE [c2 EXCEPT !.flags = FlagsOf(bld, k.flags)]
              mid == ConfigBranch(bld, name, c3, fail, sg, tab, stale)
              end == TailPart(bld, name, mid.cfg, fail)
          IN  [status |-> "SIGAR_OK", cfg |-> end.cfg,
               reqs |-> r2 \cup mid.reqs \cup end.reqs,
               opened |-> 1, closed |-> 1]

\* sigar_net_interface_config_get(sigar, name, ifconfig): sockok is whether
\* socket() succeeds, fail the set of requests the kernel refuses.  The
\* result carries the status, the config, the requests issued, and how many
\* descriptors were opened and closed.
config_get(bld, name, sockok, fail, sg, tab, stale) ==
    LET k == KernelIf(name)
        z == [ZeroIfconfig EXCEPT !.name = name]
    IN  IF ~sockok
        THEN [status |-> "errno", cfg |-> ZeroIfconfig, reqs |-> {},
              opened |-> 0, closed |-> 0]
        ELSE IF "SIOCGIFADDR" \in fail
        THEN [status |-> "errno", cfg |-> z, reqs |-> {"SIOCGIFADDR"},
              opened |-> 1, closed |-> 1]
        ELSE
          LET c1 == [z EXCEPT !.address = k.addr]
              c2 == IF "SIOCGIFNETMASK" \in fail THEN c1
                    ELSE [c1 EXCEPT !.netmask = k.netmask]
              r2 == {"SIOCGIFADDR", "SIOCGIFNETMASK", "SIOCGIFFLAGS"}
          IN  IF "SIOCGIFFLAGS" \in fail
              THEN [status |-> "errno", cfg |-> c2, reqs |-> r2,
                    opened |-> 1, closed |-> 1]
              ELSE
                LET c3 == [c2 EXCEPT !.flags = FlagsOf(bld, k.flags)]
                    mid == ConfigBranch(bld, name, c3, fail, sg, tab, stale)
                    end == TailPart(bld, name, mid.cfg, fail)
                IN  [status |-> "SIGAR_OK", cfg |-> end.cfg,
                     reqs |-> r2 \cup mid.reqs \cup end.reqs,
                     opened |-> 1, closed |-> 1]

(***************************************************************************)
(* The session: sigar_open, sigar_close                                    *)
(***************************************************************************)
ClosedSigar ==
    [state |-> "closed", ifconf_buf |-> "NULL", ifconf_len |-> 0,
     ifconf_recs |-> 0]

\* sigar_open: ifconf_buf = NULL; ifconf_len = 0;
OpenedSigar == [ClosedSigar EXCEPT !.state = "open"]

RawIflist == [number |-> 0, size |-> 0, data |-> <<>>, storage |-> "raw"]

NoHostent ==
    [valid |-> FALSE, h_name |-> <<>>, h_aliases |-> <<>>, h_addr_list |-> <<>>]

IdleFq ==
    [name |-> <<>>, namelen |-> 0, short |-> <<>>, fwd |-> NoHostent, i |-> 0,
     stages |-> <<>>, via |-> "none", iplist |-> <<>>, ipfail |-> <<>>,
     enumerated |-> FALSE, rev |-> NoHostent]

IdleLoc == [lastlen |-> 0, ifc_len |-> 0, caller |-> "api"]

\* The outputs of the last operation, as a caller that has read them sees them.
Clean ==
    /\ op = "none"
    /\ status = "none"
    /\ fds = 0
    /\ queries = <<>>
    /\ ifconfig = ZeroIfconfig
    /\ ioctls = {}
    /\ refused = {}
    /\ peer = "out"
    /\ fq = IdleFq
    /\ hostent = NoHostent

CanCall == pc = "idle" /\ sigar.state = "open" /\ Clean

\* The caller has read the last operation's outputs and drops them; the
\* session and the caller's interface list stay as they are.  The resolver's
\* static struct is dead between calls (every call writes it before reading
\* it), so it is dropped with them.
CallerConsume ==
    /\ pc = "idle"
    /\ ~Clean
    /\ op' = "none"
    /\ status' = "none"
    /\ fds' = 0
    /\ queries' = <<>>
    /\ ifconfig' = ZeroIfconfig
    /\ ioctls' = {}
    /\ refused' = {}
    /\ fq' = IdleFq
    /\ loc' = IdleLoc
    /\ hostent' = NoHostent
    /\ UNCHANGED <<build, ktab, sigar, pc, iflist, peer, listVars, hwVars>>

SigarOpen ==
    /\ pc = "idle"
    /\ sigar.state = "closed"
    /\ Clean
    /\ sigar' = OpenedSigar
    /\ UNCHANGED <<build, ktab, pc, op, status, fds, loc, queries, iflist,
                   ifconfig, ioctls, refused, peer, fq, hostent, listVars, hwVars>>

\* sigar_close: if (sigar->ifconf_buf) free(sigar->ifconf_buf);
\* Releasing a buffer that the error path of the enumeration has already
\* released is a double free: the process goes on or is aborted.
SigarClose ==
    /\ CanCall
    /\ \E ub \in {"go", "abort"} :
          /\ (ub = "abort") => sigar.ifconf_buf = "freed"
          /\ pc' = IF ub = "abort" THEN "aborted" ELSE "idle"
    /\ sigar' = ClosedSigar
    /\ UNCHANGED <<build, ktab, op, status, fds, loc, queries, iflist,
                   ifconfig, ioctls, refused, peer, fq, hostent, listVars, hwVars>>

(***************************************************************************)
(* sigar_net_interface_list_get                                            *)
(***************************************************************************)
sizeof_ifreq == 2
MaxChunks == 3

\* sizeof(struct ifreq) * SIGAR_NET_IFLIST_MAX
IfconfIncrement == sizeof_ifreq * SIGAR_NET_IFLIST_MAX
MaxIfconfLen == MaxChunks * IfconfIncrement

Min(a, b) == IF a < b THEN a ELSE b

\* The grow step taken on every pass.
GrowStep_every_pass(sg, lastlen) ==
    [sg EXCEPT !.ifconf_len = @ + IfconfIncrement,
               !.ifconf_buf = "valid",
               !.ifconf_recs = IF sg.ifconf_buf = "valid" THEN @ ELSE 0]

\* The grow step by the record count alone, sizeof(struct ifreq) left out.
GrowStep_count_only(sg, lastlen) ==
    IF sg.ifconf_buf = "NULL" \/ lastlen # 0
    THEN [sg EXCEPT !.ifconf_len = @ + SIGAR_NET_IFLIST_MAX,
                    !.ifconf_buf = "valid",
                    !.ifconf_recs = IF sg.ifconf_buf = "valid" THEN @ ELSE 0]
    ELSE sg

\* if (!sigar->ifconf_buf || lastlen) { ifconf_len += ...; realloc }
GrowStep(sg, lastlen) ==
    IF sg.ifconf_buf = "NULL" \/ lastlen # 0
    THEN [sg EXCEPT !.ifconf_len = @ + IfconfIncrement,
                    !.ifconf_buf = "valid",
                    !.ifconf_recs = IF sg.ifconf_buf = "valid" THEN @ ELSE 0]
    ELSE sg

\* The records a successful SIOCGIFCONF writes into a buffer of len bytes.
KernelRecords(tab, len) == Min(Len(tab), len \div sizeof_ifreq)

LoopTest_accept_full(ifc_len, ifconf_len, lastlen) ==
    IF ifc_len <= ifconf_len THEN "break" ELSE "continue"
\* if (ifc_len < ifconf_len) break; if (ifc_len != lastlen) { continue } break;
LoopTest(ifc_len, ifconf_len, lastlen) ==
    IF ifc_len < ifconf_len THEN "break"
    ELSE IF ifc_len # lastlen THEN "continue"
    ELSE "break"

\* The pass without the errno != EINVAL test.
LoopPass_any_error_retries(sg, lastlen, tab, outcome) ==
    LET g == GrowStep(sg, lastlen)
        n == KernelRecords(tab, g.ifconf_len)
        ifc_len == IF outcome = "ok" THEN n * sizeof_ifreq ELSE g.ifconf_len
        fatal == outcome # "ok" /\ lastlen = ifc_len
        after == IF outcome = "ok" THEN [g EXCEPT !.ifconf_recs = n] ELSE g
    IN  [sigar |-> IF fatal THEN [after EXCEPT !.ifconf_buf = "freed"] ELSE after,
         qlen |-> g.ifconf_len,
         ifc_len |-> ifc_len,
         next |-> IF fatal THEN "error"
                  ELSE IF outcome # "ok" THEN "continue"
                  ELSE LoopTest(ifc_len, g.ifconf_len, lastlen)]

\* One pass of the for (;;) loop: grow if asked, query, decide.  outcome is
\* the kernel's answer to this query: "ok", "EINVAL" or "EOTHER".  A failed
\* ioctl leaves ifc.ifc_len as the caller set it, so a failed query that is
\* not returned has ifc_len = ifconf_len and ifc_len # lastlen: it falls
\* through the two tests below the ioctl to the continue.
LoopPass(sg, lastlen, tab, outcome) ==
    LET g == GrowStep(sg, lastlen)
        n == KernelRecords(tab, g.ifconf_len)
        ifc_len == IF outcome = "ok" THEN n * sizeof_ifreq ELSE g.ifconf_len
        fatal == outcome # "ok" /\ (outcome # "EINVAL" \/ lastlen = ifc_len)
        after == IF outcome = "ok" THEN [g EXCEPT !.ifconf_recs = n] ELSE g
    IN  [sigar |-> IF fatal THEN [after EXCEPT !.ifconf_buf = "freed"] ELSE after,
         qlen |-> g.ifconf_len,
         ifc_len |-> ifc_len,
         next |-> IF fatal THEN "error"
                  ELSE IF outcome # "ok" THEN "continue"
                  ELSE LoopTest(ifc_len, g.ifconf_len, lastlen)]

RECURSIVE AcceptedNames_dedup(_, _, _)
\* The record loop passing over a record whose name comes again later.
AcceptedNames_dedup(recs, bld, configured) ==
    IF recs = <<>> THEN <<>>
    ELSE LET r == Head(recs)
             keep == /\ (bld \in {"aix", "osf"} => r.family = "AF_LINK")
                     /\ (bld = "osf" => r.name \in configured)
                     /\ \A i \in 2..Len(recs) : recs[i].name # r.name
         IN  (IF keep THEN <<r.name>> ELSE <<>>)
             \o AcceptedNames_dedup(Tail(recs), bld, configured)

RECURSIVE AcceptedNames(_, _, _)
\* The for loop over the records: on AIX and OSF only AF_LINK records are
\* kept, on OSF only those sigar_netif_configured accepts; every kept
\* record's name is strdup'ed onto the list.
AcceptedNames(recs, bld, configured) ==
    IF recs = <<>> THEN <<>>
    ELSE LET r == Head(recs)
             keep == /\ (bld \in {"aix", "osf"} => r.family = "AF_LINK")
                     /\ (bld = "osf" => r.name \in configured)
         IN  (IF keep THEN <<r.name>> ELSE <<>>)
             \o AcceptedNames(Tail(recs), bld, configured)

\* number = 0; size = ifc.ifc_len; data = malloc(...); the record loop
BuildIflist(tab, ifc_len, bld, configured) ==
    LET names == AcceptedNames(SubSeq(tab, 1, ifc_len \div sizeof_ifreq),
                               bld, configured)
    IN  [number |-> Len(names), size |-> ifc_len, data |-> names,
         storage |-> "live"]

\* sigar_netif_configured(sigar, name): config_get returns SIGAR_OK
NetifConfigured(bld, sg, tab, okNames) ==
    {n \in IfNames :
        config_get(bld, n, TRUE,
                   IF n \in okNames THEN {} ELSE {"SIOCGIFADDR"},
                   sg, tab, "none").status = "SIGAR_OK"}

\* int sock = socket(AF_INET, SOCK_DGRAM, 0); if (sock < 0) return errno;
\* fqdn_ip_get passes the status up and sigar_fqdn_get drops it.
ListGetStart(caller, sockok) ==
    /\ queries' = <<>>
    /\ loc' = [lastlen |-> 0, ifc_len |-> 0, caller |-> caller]
    /\ IF sockok
       THEN /\ pc' = "iflist"
            /\ fds' = fds + 1
            /\ status' = "none"
       ELSE /\ pc' = "idle"
            /\ fds' = fds
            /\ status' = IF caller = "api" THEN "errno" ELSE "SIGAR_OK"

ListGetCall ==
    /\ CanCall
    /\ op' = "list_get"
    /\ \E sockok \in BOOLEAN : ListGetStart("api", sockok)
    /\ UNCHANGED <<build, ktab, sigar, iflist, ifconfig, ioctls, refused, peer, fq, hostent,
                   listVars, hwVars>>

\* One pass of the loop, and what follows it when the loop ends: the error
\* return (which frees the buffer and does not close the socket), or
\* close(sock) and the building of the list.  A pass entered with a released
\* buffer hands a dangling pointer to realloc or to the kernel: the process
\* goes on as if the buffer were there, or is aborted.
ListGetQuery ==
    /\ pc = "iflist"
    /\ \E outcome \in {"ok", "EINVAL", "EOTHER"}, ub \in {"go", "abort"},
          okNames \in SUBSET IfNames :
          LET r == LoopPass(sigar, loc.lastlen, ktab, outcome)
          IN  /\ (ub = "abort") => sigar.ifconf_buf = "freed"
              /\ (build # "osf" \/ r.next # "break") => okNames = IfNames
              /\ (r.next = "continue") =>
                    r.sigar.ifconf_len + IfconfIncrement <= MaxIfconfLen
              /\ IF ub = "abort"
                 THEN /\ pc' = "aborted"
                      /\ UNCHANGED <<sigar, loc, queries, fds, status, iflist, fq>>
                 ELSE
                   /\ sigar' = r.sigar
                   /\ queries' = Append(queries,
                                        [len |-> r.qlen, res |-> outcome,
                                         reported |-> r.ifc_len])
                   /\ CASE r.next = "continue" ->
                             /\ loc' = [loc EXCEPT !.lastlen = r.ifc_len,
                                                   !.ifc_len = r.ifc_len]
                             /\ UNCHANGED <<pc, fds, status, iflist, fq>>
                        [] r.next = "error" ->
                             /\ loc' = [loc EXCEPT !.ifc_len = r.ifc_len]
                             /\ pc' = "idle"
                             /\ status' = IF loc.caller = "api" THEN outcome
                                          ELSE "SIGAR_OK"
                             /\ UNCHANGED <<fds, iflist, fq>>
                        [] OTHER ->
                             LET l == BuildIflist(ktab, r.ifc_len, build,
                                        NetifConfigured(build, r.sigar, ktab, okNames))
                             IN  /\ loc' = [loc EXCEPT !.ifc_len = r.ifc_len]
                                 /\ fds' = fds - 1
                                 /\ IF loc.caller = "api"
                                    THEN /\ pc' = "idle"
                                         /\ status' = "SIGAR_OK"
                                         /\ iflist' = l
                                         /\ UNCHANGED fq
                                    ELSE /\ pc' = "fqdn_ip"
                                         /\ fq' = [fq EXCEPT !.iplist = l.data,
                                                             !.enumerated = TRUE]
                                         /\ UNCHANGED <<status, iflist>>
    /\ UNCHANGED <<build, ktab, op, ifconfig, ioctls, refused, peer, hostent, listVars, hwVars>>

\* sigar_net_interface_list_destroy on the caller's list
IflistDestroy ==
    /\ CanCall
    /\ iflist.storage = "live"
    /\ LET d == list_destroy([kind |-> "net_interface_list",
                              number |-> iflist.number, size |-> iflist.size,
                              data |-> iflist.data, storage |-> "live",
                              dataFrees |-> 0,
                              elemFrees |-> [i \in 1..iflist.number |-> 0]])
       IN  iflist' = [number |-> d.number, size |-> d.size, data |-> d.data,
                      storage |-> d.storage]
    /\ UNCHANGED <<build, ktab, sigar, pc, op, status, fds, loc, queries,
                   ifconfig, ioctls, refused, peer, fq, hostent, listVars, hwVars>>

(***************************************************************************)
(* sigar_net_interface_config_get                                          *)
(***************************************************************************)
MaxFail == 2

\* The sets of requests the kernel refuses during one call.
FailSets == {S \in SUBSET Requests : Cardinality(S) <= MaxFail}

\* Whether the session buffer holds bytes no kernel answer has written.
HasStale(sg) ==
    \/ sg.ifconf_buf = "freed"
    \/ sg.ifconf_buf = "valid" /\ sg.ifconf_recs * sizeof_ifreq < sg.ifconf_len

ConfigGetCall ==
    /\ CanCall
    /\ \E name \in IfNames, sockok \in BOOLEAN, fail \in FailSets,
          stale \in {"none", "eth1"} :
          /\ (stale # "none") => (build \in {"aix", "osf"} /\ HasStale(sigar))
          /\ LET r == config_get(build, name, sockok, fail, sigar, ktab, stale)
             IN  /\ ifconfig' = r.cfg
                 /\ ioctls' = r.reqs
                 /\ refused' = fail \cap r.reqs
                 /\ status' = r.status
                 /\ fds' = fds + r.opened - r.closed
    /\ op' = "config_get"
    /\ UNCHANGED <<build, ktab, sigar, pc, loc, queries, iflist, fq, hostent,
                   peer, listVars, hwVars>>

(***************************************************************************)
(* sigar_inet_ntoa, fqdn_ip_get, sigar_fqdn_get                            *)
(***************************************************************************)
Digit(d) == UpperHexDigits[d + 1]

\* One pass of the do-while of sigar_inet_ntoa: the digits of u, then '.'
NtoaByte(u) ==
    (IF u > 99 THEN <<Digit(u \div 100), Digit((u % 100) \div 10)>>
     ELSE IF u > 9 THEN <<Digit(u \div 10)>>
     ELSE <<>>)
    \o <<Digit(u % 10), ".">>

inet_ntoa_reversed(address) ==
    LET s == NtoaByte(address[4]) \o NtoaByte(address[3])
             \o NtoaByte(address[2]) \o NtoaByte(address[1])
    IN  SubSeq(s, 1, Len(s) - 1)
\* sigar_inet_ntoa: the four bytes of s_addr in memory order, '.' after each,
\* the last '.' overwritten by the terminator.
sigar_inet_ntoa(address) ==
    LET s == NtoaByte(address[1]) \o NtoaByte(address[2])
             \o NtoaByte(address[3]) \o NtoaByte(address[4])
    IN  SubSeq(s, 1, Len(s) - 1)

\* What one config_get of the scan can meet: no refusal, a refused address
\* lookup, a refused flags lookup.
IpFailSets == {{}, {"SIOCGIFADDR"}, {"SIOCGIFFLAGS"}}

RECURSIVE IpScan(_, _, _, _, _, _)
\* The loop of fqdn_ip_get from index i: the name is left alone by every
\* interface whose config_get fails or whose flags hold loopback, and the
\* first other interface's address is written over it.
IpScan(names, i, fails, bld, sg, tab) ==
    IF i > Len(names) THEN [found |-> FALSE, text |-> <<>>]
    ELSE LET r == config_get(bld, names[i], TRUE, fails[i], sg, tab, "none")
         IN  IF r.status # "SIGAR_OK" \/ "IFF_LOOPBACK" \in r.cfg.flags
             THEN IpScan(names, i + 1, fails, bld, sg, tab)
             ELSE [found |-> TRUE, text |-> sigar_inet_ntoa(r.cfg.address)]

NameLens == {20, 64}
Hostnames == {S_host, S_host_example_com}
Domains == {<<>>, S_none, S_example_com}

Hostent(n, al, ad) ==
    [valid |-> TRUE, h_name |-> n, h_aliases |-> al, h_addr_list |-> ad]

\* The answers gethostbyname can give.
ForwardHostents ==
    { Hostent(S_host_example_com, <<S_otherhost, S_host_internal>>, <<"a1">>),
      Hostent(S_host_example_com, <<>>, <<>>),
      Hostent(S_host, <<S_otherhost, S_host_internal>>, <<"a1">>),
      Hostent(S_host, <<S_host_internal, S_host_example_com>>, <<>>),
      Hostent(S_host, <<S_otherhost>>, <<"a1", "a2">>),
      Hostent(S_host, <<S_hostalias>>, <<>>),
      Hostent(S_srv, <<S_hostalias, S_srv_example_com>>, <<"a1">>),
      Hostent(S_srv, <<S_host_internal>>, <<>>) }

\* The answers gethostbyaddr can give.
ReverseHostents ==
    { Hostent(S_host_example_com, <<>>, <<>>),
      Hostent(S_host, <<S_otherhost, S_host_internal>>, <<>>),
      Hostent(S_host, <<S_otherhost>>, <<>>) }

RECURSIVE FirstAlias(_, _, _)
\* for (i=0; aliases[i]; i++) if (H_ALIAS_MATCH(aliases[i], name)): the index
\* of the first alias that matches, 0 when none does.
FirstAlias(aliases, name, i) ==
    IF i > Len(aliases) THEN 0
    ELSE IF H_ALIAS_MATCH(aliases[i], name) THEN i
    ELSE FirstAlias(aliases, name, i + 1)

\* The alias scan made before the test of h_name.
FromHostent_alias_first(h) ==
    LET a == FirstAlias(h.h_aliases, h.h_name, 1)
    IN  IF a # 0
        THEN [found |-> TRUE, text |-> h.h_aliases[a], by |-> "h_aliases",
              ran |-> <<"h_aliases">>]
        ELSE IF IS_FQDN(h.h_name)
        THEN [found |-> TRUE, text |-> h.h_name, by |-> "h_name",
              ran |-> <<"h_aliases", "h_name">>]
        ELSE [found |-> FALSE, text |-> <<>>, by |-> "none",
              ran |-> <<"h_aliases", "h_name">>]

\* What one struct hostent gives: its h_name when dotted, else its first
\* matching alias (matched against the record's own h_name), else nothing;
\* ran lists the tests made, in order.
FromHostent(h) ==
    LET a == FirstAlias(h.h_aliases, h.h_name, 1)
    IN  IF IS_FQDN(h.h_name)
        THEN [found |-> TRUE, text |-> h.h_name, by |-> "h_name",
              ran |-> <<"h_name">>]
        ELSE IF a # 0
        THEN [found |-> TRUE, text |-> h.h_aliases[a], by |-> "h_aliases",
              ran |-> <<"h_name", "h_aliases">>]
        ELSE [found |-> FALSE, text |-> <<>>, by |-> "none",
              ran |-> <<"h_name", "h_aliases">>]

\* return SIGAR_OK, with the name buffer as given
FqdnReturn(f) ==
    /\ fq' = f
    /\ pc' = "idle"
    /\ status' = "SIGAR_OK"
    /\ UNCHANGED <<fds, loc, queries>>

\* fqdn_ip_get called whatever the name holds.
FqdnIpOrReturn_always_ip(f) ==
    /\ fq' = [f EXCEPT !.stages = Append(@, "fqdn_ip_get")]
    /\ \E sockok \in BOOLEAN : ListGetStart("fqdn", sockok)

\* if (!IS_FQDN(name)) fqdn_ip_get(sigar, name); return SIGAR_OK;
FqdnIpOrReturn(f) ==
    IF IS_FQDN(f.name)
    THEN FqdnReturn(f)
    ELSE /\ fq' = [f EXCEPT !.stages = Append(@, "fqdn_ip_get")]
         /\ \E sockok \in BOOLEAN : ListGetStart("fqdn", sockok)

\* gethostname(name, namelen - 1)
FqdnGetCall ==
    /\ CanCall
    /\ op' = "fqdn_get"
    /\ \E namelen \in NameLens, ok \in BOOLEAN, h \in Hostnames :
          IF ok
          THEN /\ fq' = [IdleFq EXCEPT !.namelen = namelen,
                                        !.name = SubSeq(h, 1, Min(Len(h), namelen - 1)),
                                        !.short = h,
                                        !.stages = <<"gethostname">>]
               /\ pc' = "fqdn_byname"
               /\ UNCHANGED status
          ELSE /\ fq' = [IdleFq EXCEPT !.namelen = namelen,
                                        !.stages = <<"gethostname">>]
               /\ status' = "errno"
               /\ UNCHANGED pc
    /\ UNCHANGED <<build, ktab, sigar, fds, loc, queries, iflist, ifconfig,
                   ioctls, refused, peer, hostent, listVars, hwVars>>

\* The answers the resolver gives a thread of another session.
\* What a read through p of the resolver's static struct can give: while a
\* thread of another session is inside a resolver call the struct is being
\* written, and the unsynchronised read gives the old record or a new one.
PeerAnswers ==
    { Hostent(S_host_example_com, <<>>, <<>>),
      Hostent(S_host, <<S_otherhost, S_host_internal>>, <<"a1">>) }

StaticRead ==
    IF peer = "writing" THEN PeerAnswers \cup {hostent} ELSE {hostent}

\* p = gethostbyname(name), and the branch taken when it returns NULL.  The
\* resolver serialises its own calls, so the call waits for a peer's.
FqdnGetHostByName ==
    /\ pc = "fqdn_byname"
    /\ peer # "writing"
    /\ \E ok \in BOOLEAN, p \in ForwardHostents :
          LET f == [fq EXCEPT !.stages = Append(@, "gethostbyname")]
          IN  IF ok
              THEN /\ hostent' = p
                   /\ fq' = [f EXCEPT !.fwd = p]
                   /\ pc' = "fqdn_forward"
                   /\ UNCHANGED <<status, fds, loc, queries>>
              ELSE /\ hostent' = NoHostent
                   /\ FqdnIpOrReturn([f EXCEPT !.via = "gethostname"])
    /\ UNCHANGED <<build, ktab, sigar, op, iflist, ifconfig, ioctls, refused, peer,
                   listVars, hwVars>>

\* p->h_name, then p->h_aliases, read from the resolver's static struct
FqdnForward ==
    /\ pc = "fqdn_forward"
    /\ \E h \in StaticRead :
          LET r == FromHostent(h)
              f == [fq EXCEPT !.stages = @ \o r.ran]
          IN  IF r.found
              THEN FqdnReturn([f EXCEPT !.name = SIGAR_STRNCPY(r.text, fq.namelen),
                                        !.via = "gethostbyname." \o r.by])
              ELSE /\ fq' = [f EXCEPT !.i = 1]
                   /\ pc' = IF h.h_addr_list = <<>> THEN "fqdn_domain"
                            ELSE "fqdn_reverse"
                   /\ UNCHANGED <<status, fds, loc, queries>>
    /\ UNCHANGED <<build, ktab, sigar, op, iflist, ifconfig, ioctls, refused, peer, hostent,
                   listVars, hwVars>>

\* q = gethostbyaddr(p->h_addr_list[i], ...); q->h_name; q->h_aliases.
\* q is read without a test: when the lookup finds no record, q is NULL and
\* the read of q->h_name is a read through a null pointer: the process is
\* ended, or goes on with whatever the read gives (q then stands for it).
FqdnReverse ==
    /\ pc = "fqdn_reverse"
    /\ peer # "writing"
    /\ \E ok \in BOOLEAN, q \in ReverseHostents, ub \in {"go", "abort"} :
          LET f == [fq EXCEPT !.stages = Append(@, "gethostbyaddr"), !.rev = q]
              r == FromHostent(q)
          IN  (ub = "abort" => ~ok) /\
              IF ub = "abort"
              THEN /\ pc' = "aborted"
                   /\ fq' = f
                   /\ UNCHANGED <<status, fds, loc, queries>>
              ELSE IF r.found
              THEN FqdnReturn([f EXCEPT !.name = SIGAR_STRNCPY(r.text, fq.namelen),
                                        !.via = "gethostbyaddr." \o r.by])
              ELSE /\ fq' = [f EXCEPT !.i = @ + 1]
                   /\ pc' = IF fq.i + 1 > Len(hostent.h_addr_list)
                            THEN "fqdn_domain" ELSE "fqdn_reverse"
                   /\ UNCHANGED <<status, fds, loc, queries>>
    /\ UNCHANGED <<build, ktab, sigar, op, iflist, ifconfig, ioctls, refused, peer, hostent,
                   listVars, hwVars>>

\* The getdomainname stage and the last test of the name.
FqdnDomain ==
    /\ pc = "fqdn_domain"
    /\ \E dok \in BOOLEAN, domain \in Domains :
          LET asked == ~IS_FQDN(fq.name)
              use == /\ asked
                     /\ dok
                     /\ domain # <<>>
                     /\ Head(domain) # "("
              len == Len(fq.name)
              f == IF asked THEN [fq EXCEPT !.stages = Append(@, "getdomainname")]
                   ELSE fq
          IN  /\ (~asked) => (dok /\ domain = <<>>)
              /\ IF use
                 THEN FqdnIpOrReturn(
                        [f EXCEPT !.name = fq.name \o <<".">>
                                     \o SIGAR_STRNCPY(domain, fq.namelen - (len + 1)),
                                  !.via = "getdomainname"])
                 ELSE FqdnIpOrReturn([f EXCEPT !.via = "gethostname"])
    /\ UNCHANGED <<build, ktab, sigar, op, iflist, ifconfig, ioctls, refused, peer, hostent,
                   listVars, hwVars>>

\* The loop of fqdn_ip_get over the enumerated names, the destroy of its
\* list, and the return of sigar_fqdn_get.
FqdnIpScan ==
    /\ pc = "fqdn_ip"
    /\ \E fails \in [1..Len(fq.iplist) -> IpFailSets] :
          LET r == IpScan(fq.iplist, 1, fails, build, sigar, ktab)
          IN  FqdnReturn([fq EXCEPT !.ipfail = fails,
                                    !.name = IF r.found THEN r.text ELSE @,
                                    !.via = IF r.found THEN "ip" ELSE @])
    /\ UNCHANGED <<build, ktab, sigar, op, iflist, ifconfig, ioctls, refused, peer, hostent,
                   listVars, hwVars>>

InitNet ==
    /\ build \in Builds
    /\ ktab \in KernelTables
    /\ sigar = ClosedSigar
    /\ pc = "idle"
    /\ op = "none"
    /\ status = "none"
    /\ fds = 0
    /\ loc = IdleLoc
    /\ queries = <<>>
    /\ iflist = RawIflist
    /\ ifconfig = ZeroIfconfig
    /\ ioctls = {}
    /\ refused = {}
    /\ peer = "out"
    /\ fq = IdleFq
    /\ hostent = NoHostent

\* The session variables of a specification that does not use the session.
IdleNet ==
    /\ build = "linux"
    /\ ktab = <<>>
    /\ sigar = ClosedSigar
    /\ pc = "idle"
    /\ op = "none"
    /\ status = "none"
    /\ fds = 0
    /\ loc = IdleLoc
    /\ queries = <<>>
    /\ iflist = RawIflist
    /\ ifconfig = ZeroIfconfig
    /\ ioctls = {}
    /\ refused = {}
    /\ peer = "out"
    /\ fq = IdleFq
    /\ hostent = NoHostent

\* A thread of another session enters gethostbyname (sigar.c:1289) or
\* gethostbyaddr (1337) while this thread is between its own resolver call
\* and the end of its reads through p.
PeerResolverCall ==
    /\ peer = "out"
    /\ pc \in {"fqdn_forward", "fqdn_reverse"}
    /\ peer' = "writing"
    /\ UNCHANGED <<build, ktab, sigar, pc, op, status, fds, loc, queries, iflist,
                   ifconfig, ioctls, refused, fq, hostent, listVars, hwVars>>

\* The peer's resolver call returns: its answer is in the static struct.
PeerResolverReturn ==
    /\ peer = "writing"
    /\ \E h \in PeerAnswers : hostent' = h
    /\ peer' = "out"
    /\ UNCHANGED <<build, ktab, sigar, pc, op, status, fds, loc, queries, iflist,
                   ifconfig, ioctls, refused, fq, listVars, hwVars>>

Init == InitNet /\ InitList /\ hw = IdleHw

Next ==
    \/ SigarOpen
    \/ SigarClose
    \/ CallerConsume
    \/ ListGetCall
    \/ ListGetQuery
    \/ IflistDestroy
    \/ ConfigGetCall
    \/ FqdnGetCall
    \/ FqdnGetHostByName
    \/ FqdnForward
    \/ FqdnReverse
    \/ FqdnDomain
    \/ FqdnIpScan

(***************************************************************************)
(* Specifications                                                          *)
(***************************************************************************)
Spec == Init /\ [][Next]_vars

\* The list structures alone, the session never opened.
InitListOnly == InitList /\ hw = IdleHw /\ IdleNet

SpecList == InitListOnly /\ [][NextList]_vars

\* One session's operations with a thread of a second session running
\* sigar_fqdn_get beside them.
NextConc ==
    \/ SigarOpen
    \/ SigarClose
    \/ CallerConsume
    \/ ListGetCall
    \/ ListGetQuery
    \/ IflistDestroy
    \/ ConfigGetCall
    \/ FqdnGetCall
    \/ FqdnGetHostByName
    \/ FqdnForward
    \/ FqdnReverse
    \/ FqdnDomain
    \/ FqdnIpScan
    \/ PeerResolverCall
    \/ PeerResolverReturn

\* One platform, every kernel table.
InitConc == Init /\ build = "linux"

SpecConc == InitConc /\ [][NextConc]_vars

NextHw == HwaddrFormat

\* The formatter alone.
InitHwOnly == InitHw /\ InitList /\ IdleNet

SpecHw == InitHwOnly /\ [][NextHw]_vars

(***************************************************************************)
(* C1.  A list made by create and filled by the grow-before-write          *)
(* insertion holds, after N insertions, exactly the inserted elements in   *)
(* insertion order, count N, and capacity K * ceil(N / K) -- except that   *)
(* the capacity of an empty list is the one chunk K that create allocates. *)
(***************************************************************************)
CeilDiv(n, k) == (n + k - 1) \div k

C1_CapacityChunked ==
    list.storage = "live" =>
        LET K == ChunkSize(list.kind)
            N == Len(inserted)
        IN  /\ list.number = N
            /\ list.data = inserted
            /\ list.size = IF N = 0 THEN K ELSE K * CeilDiv(N, K)

\* C1 as stated: capacity == K * ceil(N / K) for every N >= 0.
C1_AsStated ==
    list.storage = "live" =>
        LET K == ChunkSize(list.kind)
            N == Len(inserted)
        IN  /\ list.number = N
            /\ list.data = inserted
            /\ list.size = K * CeilDiv(N, K)

C1_Witness ==
    /\ list.storage = "live"
    /\ Len(inserted) > 2 * ChunkSize(list.kind)
    /\ list.size = 3 * ChunkSize(list.kind)
    /\ inserted[1] # inserted[2]

(***************************************************************************)
(* C2.  Once a created list has been destroyed, whether it was empty or    *)
(* not and however many times destroy has run, count and capacity are 0,   *)
(* the storage has been freed exactly once, and each element of a          *)
(* name-owning list has been freed exactly once (never, for other kinds).  *)
(***************************************************************************)
C2_DestroyIdempotent ==
    /\ list.dataFrees <= 1
    /\ destroys >= 1 =>
          /\ list.number = 0
          /\ list.size = 0
          /\ list.dataFrees = 1
          /\ Len(list.elemFrees) = Len(inserted)
          /\ \A i \in 1..Len(list.elemFrees) :
                list.elemFrees[i] = IF OwnsElements(list.kind) THEN 1 ELSE 0

C2_Witness ==
    /\ destroys = 2
    /\ inserted = <<>>
    /\ OwnsElements(list.kind)
    /\ list.dataFrees = 1

(***************************************************************************)
(* C6.  sigar_hwaddr_format writes 17 characters: for each of the 6 bytes  *)
(* in input order two uppercase hexadecimal digits whose value is the      *)
(* byte masked to 8 bits, with ':' between consecutive bytes; the bytes    *)
(* 01 AB 00 FF 10 0A give "01:AB:00:FF:10:0A".                             *)
(***************************************************************************)
UpperHexValue(c) ==
    CASE c = "0" -> 0 [] c = "1" -> 1 [] c = "2" -> 2 [] c = "3" -> 3
      [] c = "4" -> 4 [] c = "5" -> 5 [] c = "6" -> 6 [] c = "7" -> 7
      [] c = "8" -> 8 [] c = "9" -> 9 [] c = "A" -> 10 [] c = "B" -> 11
      [] c = "C" -> 12 [] c = "D" -> 13 [] c = "E" -> 14 [] c = "F" -> 15
      [] OTHER -> -1

C6_Example ==
    <<"0", "1", ":", "A", "B", ":", "0", "0", ":",
      "F", "F", ":", "1", "0", ":", "0", "A">>

C6_HwaddrFormat ==
    hw.buff # <<>> =>
        /\ Len(hw.buff) = 17
        /\ \A i \in 1..6 :
              /\ UpperHexValue(hw.buff[3 * i - 2]) >= 0
              /\ UpperHexValue(hw.buff[3 * i - 1]) >= 0
              /\ 16 * UpperHexValue(hw.buff[3 * i - 2])
                    + UpperHexValue(hw.buff[3 * i - 1]) = hw.ptr[i] % 256
        /\ \A i \in 1..5 : hw.buff[3 * i] = ":"
        /\ hw.ptr = <<1, 171, 0, 255, 16, 10>> => hw.buff = C6_Example

C6_Witness ==
    /\ hw.ptr = <<1, 171, 0, 255, 16, 10>>
    /\ hw.buff = C6_Example

(***************************************************************************)
(* Helpers of the statements below, written without the model's string     *)
(* operators.                                                              *)
(***************************************************************************)
Dotted(s) == \E i \in 1..Len(s) : s[i] = "."

BeginsWith(s, pre) == Len(s) >= Len(pre) /\ \A i \in 1..Len(pre) : s[i] = pre[i]

\* s as it fits, with its terminator, into a buffer of len bytes.
FitInto(s, len) == [i \in 1..(IF Len(s) < len THEN Len(s) ELSE len - 1) |-> s[i]]

\* sigar_net_interface_list_get has returned SIGAR_OK (to the API caller, or
\* to fqdn_ip_get inside a finished sigar_fqdn_get).
ListGetSucceeded ==
    \/ op = "list_get" /\ pc = "idle" /\ status = "SIGAR_OK"
    \/ op = "fqdn_get" /\ pc = "idle" /\ fq.enumerated

\* sigar_fqdn_get has returned.
FqdnReturned == op = "fqdn_get" /\ pc = "idle"

(***************************************************************************)
(* C3.  A query that succeeds and fills the buffer exactly is never the    *)
(* accepted one: the next query of the call uses a buffer one increment    *)
(* longer (or the call is still in its loop, about to make it, or the      *)
(* process was aborted making it), and when the enumeration returns        *)
(* success its last query succeeded with a reported length strictly less   *)
(* than the buffer length, which is the session's buffer length.           *)
(***************************************************************************)
C3_FullBufferRetried ==
    /\ \A i \in 1..Len(queries) :
          (queries[i].res = "ok" /\ queries[i].reported = queries[i].len) =>
              IF i < Len(queries)
              THEN queries[i + 1].len = queries[i].len + IfconfIncrement
              ELSE pc \in {"iflist", "aborted"}
    /\ ListGetSucceeded =>
          /\ queries # <<>>
          /\ queries[Len(queries)].res = "ok"
          /\ queries[Len(queries)].reported < queries[Len(queries)].len
          /\ queries[Len(queries)].len = sigar.ifconf_len

C3_Witness ==
    /\ op = "list_get" /\ pc = "idle" /\ status = "SIGAR_OK"
    /\ Len(queries) = 3
    /\ queries[1].res = "ok" /\ queries[1].reported = queries[1].len
    /\ queries[2].res = "ok" /\ queries[2].reported = queries[2].len
    /\ queries[3].reported < queries[3].len

(***************************************************************************)
(* C4.  Within one enumeration no buffer size is queried twice, and a      *)
(* buffer-too-small report (EINVAL) that follows an earlier one, the       *)
(* buffer having been grown in between, is the last query of the call and  *)
(* is returned as the error.                                               *)
(***************************************************************************)
C4_RepeatedEinvalStops ==
    /\ \A i, j \in 1..Len(queries) : i # j => queries[i].len # queries[j].len
    /\ \A i \in 2..Len(queries) :
          (queries[i - 1].res = "EINVAL" /\ queries[i].res = "EINVAL") =>
              /\ i = Len(queries)
              /\ pc = "idle"
              /\ (op = "list_get" => status = "EINVAL")

(***************************************************************************)
(* C5.  When sigar_net_interface_config_get returns SIGAR_OK with the      *)
(* loopback flag in the flags, destination equals address, broadcast is    *)
(* zero, hwaddr is the null address 00:00:00:00:00:00, and none of the     *)
(* destination, broadcast and hardware-address requests was issued.        *)
(***************************************************************************)
C5_NullHwaddr ==
    <<"0", "0", ":", "0", "0", ":", "0", "0", ":",
      "0", "0", ":", "0", "0", ":", "0", "0">>

C5_LoopbackConfig ==
    (/\ op = "config_get" /\ pc = "idle" /\ status = "SIGAR_OK"
     /\ "IFF_LOOPBACK" \in ifconfig.flags) =>
        /\ ifconfig.destination = ifconfig.address
        /\ ifconfig.broadcast = <<0, 0, 0, 0>>
        /\ ifconfig.hwaddr = C5_NullHwaddr
        /\ ioctls \cap {"SIOCGIFDSTADDR", "SIOCGIFBRDADDR", "SIOCGIFHWADDR",
                        "SIOCGARP"} = {}

C5_Witness ==
    /\ op = "config_get" /\ pc = "idle" /\ status = "SIGAR_OK"
    /\ "IFF_LOOPBACK" \in ifconfig.flags
    /\ ifconfig.name = "lo"
    /\ ifconfig.address = <<127, 0, 0, 1>>
    /\ ifconfig.destination = <<127, 0, 0, 1>>
    /\ "SIOCGIFMETRIC" \in ioctls

(***************************************************************************)
(* C7.  When the short hostname has no '.' and gethostbyname fails,        *)
(* sigar_fqdn_get returns SIGAR_OK, and if the enumeration succeeded and   *)
(* some enumerated interface resolves and is not loopback, the name is     *)
(* the dotted-decimal text of the address of the first such interface in   *)
(* enumeration order; for eth0 at 10.0.0.5 that is "10.0.0.5".             *)
(***************************************************************************)
C7_Text(ifname) ==
    CASE ifname = "eth0" -> <<"1", "0", ".", "0", ".", "0", ".", "5">>
      [] ifname = "eth1" ->
           <<"1", "9", "2", ".", "1", "6", "8", ".", "1", ".", "1", "0", "0">>
      [] OTHER -> <<"1", "2", "7", ".", "0", ".", "0", ".", "1">>

C7_ForwardFailed ==
    /\ FqdnReturned
    /\ Len(fq.stages) >= 2
    /\ fq.stages[2] = "gethostbyname"
    /\ ~fq.fwd.valid
    /\ ~Dotted(fq.short)

\* The enumerated interfaces whose address and flags lookups are answered
\* and whose kernel flags do not hold loopback.
C7_Usable ==
    {j \in 1..Len(fq.iplist) :
        /\ j \in DOMAIN fq.ipfail
        /\ fq.ipfail[j] \cap {"SIOCGIFADDR", "SIOCGIFFLAGS"} = {}
        /\ "IFF_LOOPBACK" \notin KernelIf(fq.iplist[j]).flags}

C7_IpFallback ==
    C7_ForwardFailed =>
        /\ status = "SIGAR_OK"
        /\ (fq.enumerated /\ C7_Usable # {}) =>
              LET j == CHOOSE m \in C7_Usable : \A n \in C7_Usable : m <= n
              IN  fq.name = C7_Text(fq.iplist[j])

C7_Witness ==
    /\ C7_ForwardFailed
    /\ fq.enumerated
    /\ fq.iplist = <<"lo", "eth0">>
    /\ fq.name = <<"1", "0", ".", "0", ".", "0", ".", "5">>

(***************************************************************************)
(* C8.  When gethostbyname succeeds with a canonical name that contains    *)
(* '.' and fits the caller's buffer, sigar_fqdn_get returns SIGAR_OK with  *)
(* exactly that name, and the stages run are gethostname, gethostbyname    *)
(* and the test of h_name: no alias scan, reverse lookup, domain query or  *)
(* interface enumeration.                                                  *)
(***************************************************************************)
C8_CanonicalWins ==
    (/\ FqdnReturned
     /\ fq.fwd.valid
     /\ Dotted(fq.fwd.h_name)
     /\ Len(fq.fwd.h_name) < fq.namelen) =>
        /\ status = "SIGAR_OK"
        /\ fq.name = fq.fwd.h_name
        /\ fq.stages = <<"gethostname", "gethostbyname", "h_name">>
        /\ queries = <<>>
        /\ ~fq.enumerated

C8_Witness ==
    /\ FqdnReturned
    /\ fq.fwd.valid
    /\ fq.fwd.h_aliases # <<>>
    /\ fq.short = <<"h", "o", "s", "t">>
    /\ fq.name = <<"h", "o", "s", "t", ".", "e", "x", "a", "m", "p", "l", "e",
                   ".", "c", "o", "m">>

(***************************************************************************)
(* C9.  With short host "host" and undotted canonical name "host": if      *)
(* some alias contains '.' and begins with "host", the result is the       *)
(* first such alias in list order (as it fits the caller's buffer) and     *)
(* comes from the alias scan; if none does, the alias scan gives no        *)
(* result; "otherhost.example.com" is never the alias scan's result.       *)
(***************************************************************************)
C9_Host == <<"h", "o", "s", "t">>

C9_Otherhost ==
    <<"o", "t", "h", "e", "r", "h", "o", "s", "t", ".", "e", "x", "a", "m",
      "p", "l", "e", ".", "c", "o", "m">>

C9_HostInternal ==
    <<"h", "o", "s", "t", ".", "i", "n", "t", "e", "r", "n", "a", "l", ".",
      "e", "x", "a", "m", "p", "l", "e", ".", "c", "o", "m">>

C9_AliasRule ==
    (/\ FqdnReturned
     /\ fq.short = C9_Host
     /\ fq.fwd.valid
     /\ fq.fwd.h_name = C9_Host) =>
        LET al == fq.fwd.h_aliases
            M == {i \in 1..Len(al) : Dotted(al[i]) /\ BeginsWith(al[i], C9_Host)}
        IN  /\ (M # {}) =>
                  LET j == CHOOSE m \in M : \A n \in M : m <= n
                  IN  /\ fq.via = "gethostbyname.h_aliases"
                      /\ fq.name = FitInto(al[j], fq.namelen)
            /\ (M = {}) => fq.via # "gethostbyname.h_aliases"
            /\ (fq.via = "gethostbyname.h_aliases") =>
                  fq.name # FitInto(C9_Otherhost, fq.namelen)

C9_Witness ==
    /\ FqdnReturned
    /\ fq.short = C9_Host
    /\ fq.fwd.valid
    /\ fq.fwd.h_name = C9_Host
    /\ fq.fwd.h_aliases[1] = C9_Otherhost
    /\ fq.via = "gethostbyname.h_aliases"
    /\ fq.name = C9_HostInternal

(***************************************************************************)
(* C10.  Whenever an operation has returned, every descriptor it opened    *)
(* is closed: the sockets of the enumeration and of the configuration      *)
(* lookup, and the file handle of sigar_who_list_get.                      *)
(***************************************************************************)
C10_DescriptorsClosed ==
    /\ (pc = "idle") => fds = 0
    /\ (who.pc = "idle") => who.fp # "open"

(***************************************************************************)
(* C11.  A kernel query that fails with an error other than EINVAL is the  *)
(* last query of its enumeration; the step that makes it ends the call,    *)
(* returns that error to the API caller and leaves the caller's list       *)
(* (count, capacity, storage) as it was.                                   *)
(***************************************************************************)
C11_ErrorStep ==
    (/\ Len(queries') = Len(queries) + 1
     /\ queries'[Len(queries')].res = "EOTHER") =>
        /\ pc' = "idle"
        /\ iflist' = iflist
        /\ (op = "list_get") => status' = "EOTHER"

C11_ErrorLeavesList ==
    /\ [](\A i \in 1..Len(queries) :
            queries[i].res = "EOTHER" => (i = Len(queries) /\ pc = "idle"))
    /\ [][C11_ErrorStep]_vars

C11_Witness ==
    /\ op = "list_get" /\ pc = "idle" /\ status = "EOTHER"
    /\ Len(queries) = 2
    /\ queries[1].res = "EINVAL"
    /\ iflist.storage = "live"
    /\ iflist.number = 2

(***************************************************************************)
(* C12.  Once its socket is open, sigar_net_interface_config_get returns   *)
(* an error exactly when the address lookup or the flags lookup is         *)
(* refused.  When it returns SIGAR_OK the address is the kernel's, and a   *)
(* refused netmask, destination, broadcast, MTU or metric lookup leaves    *)
(* that field zero; a refused SIOCGIFHWADDR leaves hwaddr empty and a      *)
(* refused SIOCGARP leaves it the all-zero address.                        *)
(***************************************************************************)
C12_SocketOpened == op = "config_get" /\ pc = "idle" /\ ioctls # {}

C12_ErrorIffAddrOrFlags ==
    C12_SocketOpened =>
        /\ (status # "SIGAR_OK") <=>
              (refused \cap {"SIOCGIFADDR", "SIOCGIFFLAGS"} # {})
        /\ (status = "SIGAR_OK") =>
              /\ ifconfig.address = KernelIf(ifconfig.name).addr
              /\ ifconfig.netmask =
                    IF "SIOCGIFNETMASK" \in refused THEN <<0, 0, 0, 0>>
                    ELSE KernelIf(ifconfig.name).netmask
              /\ ("SIOCGIFDSTADDR" \in refused) =>
                    ifconfig.destination = <<0, 0, 0, 0>>
              /\ ("SIOCGIFBRDADDR" \in refused) =>
                    ifconfig.broadcast = <<0, 0, 0, 0>>
              /\ ("SIOCGIFHWADDR" \in refused) => ifconfig.hwaddr = <<>>
              /\ ("SIOCGARP" \in refused) => ifconfig.hwaddr = C5_NullHwaddr
              /\ ("SIOCGIFMTU" \in refused) => ifconfig.mtu = 0
              /\ ("SIOCGIFMETRIC" \in refused) => ifconfig.metric = 0

\* C12 as the claim has it: an error exactly when the address lookup is
\* refused.
C12_ErrorIffAddr ==
    C12_SocketOpened =>
        ((status # "SIGAR_OK") <=> ("SIOCGIFADDR" \in refused))

C12_Witness ==
    /\ C12_SocketOpened
    /\ status = "SIGAR_OK"
    /\ ifconfig.name = "eth0"
    /\ refused = {"SIOCGIFNETMASK", "SIOCGIFMTU"}
    /\ ifconfig.address = <<10, 0, 0, 5>>
    /\ ifconfig.netmask = <<0, 0, 0, 0>>
    /\ ifconfig.metric = 1

(***************************************************************************)
(* C13.  Once gethostname has given the short hostname, sigar_fqdn_get     *)
(* fails in no way: when it has returned it has returned SIGAR_OK with a   *)
(* non-empty name, and a reverse lookup that finds no record does not end  *)
(* the call otherwise than by going on to the next stage.                  *)
(***************************************************************************)
C13_OnlyHostnameFails ==
    (op = "fqdn_get" /\ fq.short # <<>>) =>
        /\ (pc = "idle") => (status = "SIGAR_OK" /\ fq.name # <<>>)
        /\ (fq.stages[Len(fq.stages)] = "gethostbyaddr") => pc # "aborted"

(***************************************************************************)
(* C14.  With a thread of another session running beside it, an operation  *)
(* returns what it returns alone: when the forward lookup of this call's   *)
(* sigar_fqdn_get gave a record that holds a usable name (a dotted h_name, *)
(* or a matching alias), the call returns that name.                       *)
(***************************************************************************)
C14_SessionsIndependent ==
    (/\ FqdnReturned
     /\ fq.fwd.valid
     /\ FromHostent(fq.fwd).found) =>
        /\ status = "SIGAR_OK"
        /\ fq.name = FitInto(FromHostent(fq.fwd).text, fq.namelen)

(***************************************************************************)
(* C15.  On an open session the buffer length ifconf_len is always a       *)
(* multiple of sizeof(struct ifreq) and is non-zero whenever ifconf_buf is *)
(* not NULL, and no step of an open session makes it smaller, whether the  *)
(* enumeration succeeds or fails.                                          *)
(***************************************************************************)
C15_LenStep ==
    (sigar.state = "open" /\ sigar'.state = "open") =>
        sigar'.ifconf_len >= sigar.ifconf_len

C15_BufferLength ==
    /\ [](/\ sigar.ifconf_len % sizeof_ifreq = 0
          /\ (sigar.ifconf_buf # "NULL") => sigar.ifconf_len > 0)
    /\ [][C15_LenStep]_vars

C15_Witness ==
    /\ pc = "idle" /\ op = "list_get" /\ status = "EOTHER"
    /\ sigar.ifconf_buf = "freed"
    /\ sigar.ifconf_len = 2 * sizeof_ifreq * SIGAR_NET_IFLIST_MAX
    /\ iflist.storage = "live"

(***************************************************************************)
(* C16.  The stages of one sigar_fqdn_get run in the order canonical name, *)
(* forward aliases, reverse lookups (one per forward address, in list      *)
(* order), domain suffix, IP address; none but the reverse lookup appears  *)
(* twice; the domain and IP stages are run only on a name without '.';     *)
(* and the stage that produced the returned name is the last one run.      *)
(***************************************************************************)
C16_Rank(st) ==
    CASE st = "h_name" -> 1
      [] st = "h_aliases" -> 2
      [] st = "gethostbyaddr" -> 3
      [] st = "getdomainname" -> 4
      [] st = "fqdn_ip_get" -> 5
      [] OTHER -> 0

C16_Reverses == {i \in 1..Len(fq.stages) : fq.stages[i] = "gethostbyaddr"}

C16_LastOf(via) ==
    CASE via = "gethostbyname.h_name" -> "h_name"
      [] via = "gethostbyname.h_aliases" -> "h_aliases"
      [] via \in {"gethostbyaddr.h_name", "gethostbyaddr.h_aliases"} -> "gethostbyaddr"
      [] via = "getdomainname" -> "getdomainname"
      [] via = "ip" -> "fqdn_ip_get"
      [] OTHER -> "none"

C17_Matching(h) ==
    {i \in 1..Len(h.h_aliases) :
        Dotted(h.h_aliases[i]) /\ BeginsWith(h.h_aliases[i], h.h_name)}

C17_FirstOf(h) == CHOOSE m \in C17_Matching(h) : \A n \in C17_Matching(h) : m <= n

C17_AliasAgainstCanonical ==
    FqdnReturned =>
        /\ (fq.via = "gethostbyname.h_aliases") =>
              /\ C17_Matching(fq.fwd) # {}
              /\ fq.name = FitInto(fq.fwd.h_aliases[C17_FirstOf(fq.fwd)], fq.namelen)
        /\ (fq.via = "gethostbyaddr.h_aliases") =>
              /\ C17_Matching(fq.rev) # {}
              /\ fq.name = FitInto(fq.rev.h_aliases[C17_FirstOf(fq.rev)], fq.namelen)
        /\ (fq.fwd.valid /\ ~Dotted(fq.fwd.h_name) /\ C17_Matching(fq.fwd) # {}) =>
              fq.via = "gethostbyname.h_aliases"

\* C17 as the claim has it: an alias that an alias scan returns begins with
\* the short hostname.
C17_AliasAgainstShort ==
    (/\ FqdnReturned
     /\ fq.via \in {"gethostbyname.h_aliases", "gethostbyaddr.h_aliases"}) =>
        BeginsWith(fq.name, fq.short)

C17_Witness ==
    /\ FqdnReturned
    /\ fq.short = <<"h", "o", "s", "t">>
    /\ fq.fwd.h_name = <<"s", "r", "v">>
    /\ fq.via = "gethostbyname.h_aliases"
    /\ fq.name = <<"s", "r", "v", ".", "e", "x", "a", "m", "p", "l", "e", ".",
                   "c", "o", "m">>

(***************************************************************************)
(* C18.  When sigar_net_interface_list_get returns SIGAR_OK the caller's   *)
(* list is live, holds the name of every accepted record of the last       *)
(* kernel answer once, in the kernel's order, duplicates kept, its count   *)
(* is the number of names, and count <= capacity.  Accepted is: every      *)
(* record (Linux and the ARP build), the AF_LINK records (AIX), the        *)
(* AF_LINK records whose name some set of configured interfaces holds      *)
(* (OSF).                                                                  *)
(***************************************************************************)
C18_Answer ==
    [i \in 1..(queries[Len(queries)].reported \div sizeof_ifreq) |-> ktab[i]]

C18_IsLink(r) == r.family = "AF_LINK"

C18_NamesOf(recs) == [i \in 1..Len(recs) |-> recs[i].name]

C18_ListContents ==
    (op = "list_get" /\ pc = "idle" /\ status = "SIGAR_OK") =>
        /\ iflist.storage = "live"
        /\ iflist.number = Len(iflist.data)
        /\ iflist.number <= iflist.size
        /\ (build \in {"linux", "arp"}) =>
              iflist.data = C18_NamesOf(C18_Answer)
        /\ (build = "aix") =>
              iflist.data = C18_NamesOf(SelectSeq(C18_Answer, C18_IsLink))
        /\ (build = "osf") =>
              \E S \in SUBSET IfNames :
                 iflist.data =
                    C18_NamesOf(SelectSeq(SelectSeq(C18_Answer, C18_IsLink),
                                          LAMBDA r : r.name \in S))

C18_Witness ==
    /\ op = "list_get" /\ pc = "idle" /\ status = "SIGAR_OK"
    /\ build = "linux"
    /\ iflist.data = <<"eth0", "eth0">>
    /\ iflist.number = 2

(***************************************************************************)
(* C19.  On a session whose buffer from an earlier call is still there,    *)
(* the first query of an enumeration is made with the buffer at the length *)
(* it has, and if that query succeeds with a reported length below the     *)
(* buffer length the loop ends with it (the call makes that one query) and *)
(* the session keeps the same buffer at the same length.                   *)
(***************************************************************************)
C19_FirstQueryStep ==
    (/\ pc = "iflist"
     /\ queries = <<>>
     /\ sigar.ifconf_buf = "valid"
     /\ Len(queries') = 1) =>
        /\ queries'[1].len = sigar.ifconf_len
        /\ (queries'[1].res = "ok" /\ queries'[1].reported < queries'[1].len) =>
              /\ pc' # "iflist"
              /\ sigar'.ifconf_buf = "valid"
              /\ sigar'.ifconf_len = sigar.ifconf_len

C19_BufferReuse == [][C19_FirstQueryStep]_vars

C19_Witness ==
    /\ op = "list_get" /\ pc = "idle" /\ status = "SIGAR_OK"
    /\ Len(queries) = 1
    /\ queries[1].len = 2 * sizeof_ifreq * SIGAR_NET_IFLIST_MAX
    /\ queries[1].reported < queries[1].len
    /\ sigar.ifconf_buf = "valid"
    /\ sigar.ifconf_len = queries[1].len

(***************************************************************************)
(* C20.  The session never keeps a pointer to a buffer that has been       *)
(* released: whatever calls have succeeded or failed, ifconf_buf is a      *)
(* valid buffer or NULL, so that no later query, realloc or sigar_close    *)
(* meets a released buffer.                                                *)
(***************************************************************************)
C20_NoReleasedBuffer == sigar.ifconf_buf \in {"valid", "NULL"}
====
